---- MODULE Spec2Model ----
(***************************************************************************)
(* Model of the two A/B-test engines of the repository:                    *)
(*   perform_discrete_ab_test   (discrete_tests.py)                        *)
(*   perform_continuous_ab_test (continuous_tests.py)                      *)
(* and of the Streamlit application that calls them (Streamlit/app.py).    *)
(*                                                                         *)
(* A table (DataFrame) is a sequence of blocks; a block stands for n       *)
(* consecutive rows that carry the same variant value and the same metric  *)
(* cell.  Probabilities are in thousandths (0.05 is 50).  The statistical  *)
(* routines of scipy are outside the repository: each is an operator that  *)
(* yields the set of outcomes the routine can produce on the given data.   *)
(***************************************************************************)
EXTENDS Integers, Sequences, FiniteSets, TLC

VARIABLES df, call, outcome, results, app

vars == <<df, call, outcome, results, app>>

----------------------------------------------------------------------------
(* Bounds of the input tables *)

MaxBlocks == 2

TinyN == 1

(* Program constants *)

LargeSampleN == 30

Alpha == 50

SmallExpected == 5

MinExpected == 1

MaxSmallPct == 20

ShapiroMinN == 3

\* the square of the normal quantile of a two-sided 95% interval, in millionths
ZSquared == 3841459

\* the 0.95 quantile of the chi-squared distribution with 1 degree of freedom,
\* in millionths
ChiSquaredCritical == 3841459

----------------------------------------------------------------------------
(* Values *)

None == <<>>

Some(x) == <<x>>

\* a float: a number (thousandths), NaN, or infinity
F(v) == [k |-> "num", v |-> v]

NaN == [k |-> "nan", v |-> 0]

Inf == [k |-> "inf", v |-> 0]

\* a finite statistic whose value the model does not compute
Finite == [k |-> "finite", v |-> 0]

\* Python's float comparisons: every comparison with NaN is False
FloatLt(x, bound) == x.k = "num" /\ x.v < bound

FloatGt(x, bound) == x.k = "num" /\ x.v > bound

\* a metric cell of a table: a number, a non-numeric string, or missing
Num(n) == [t |-> "num", s |-> "", n |-> n]

Str(s) == [t |-> "str", s |-> s, n |-> 0]

Missing == [t |-> "nan", s |-> "", n |-> 0]

\* the missing variant value (NaN in an object column)
NoVariant == "NaN"

Variants == {"A", "B", "C", NoVariant}

MetricLevels == {0, 1, 2}

RawMetrics == {Num(m) : m \in MetricLevels} \cup {Str("x")}

Counts == {TinyN, LargeSampleN - 1, LargeSampleN}

Blocks == [variant : Variants, metric : RawMetrics, n : Counts]

\* tables of up to MaxBlocks blocks of any rows
ShortTables == UNION {[1..k -> Blocks] : k \in 0..MaxBlocks}

CleanBlocks == {b \in Blocks : b.variant # NoVariant /\ b.metric.t = "num"}

SameCell(a, b) == a.variant = b.variant /\ a.metric = b.metric

\* tables of three blocks of clean rows, no two blocks with the same variant and
\* metric: three variants, three metric levels, or a group with two levels
WideTables ==
    {<<t[1], t[2], t[3]>> :
        t \in {u \in CleanBlocks \X CleanBlocks \X CleanBlocks :
                  ~SameCell(u[1], u[2]) /\ ~SameCell(u[1], u[3]) /\ ~SameCell(u[2], u[3])}}

\* tables of two different blocks of clean rows followed by a few rows whose
\* metric is not numeric
MixedTables ==
    {<<t[1], t[2], [variant |-> t[1].variant, metric |-> Str("x"), n |-> TinyN]>> :
        t \in {u \in CleanBlocks \X CleanBlocks : ~SameCell(u[1], u[2])}}

\* tables whose first rows have a metric that is not numeric and the variant of
\* the second of the two blocks of clean rows that follow
LeadingTables ==
    {<<[variant |-> t[2].variant, metric |-> Str("x"), n |-> TinyN], t[1], t[2]>> :
        t \in {u \in CleanBlocks \X CleanBlocks : ~SameCell(u[1], u[2])}}

Tables == ShortTables \cup WideTables \cup MixedTables \cup LeadingTables

----------------------------------------------------------------------------
(* pandas *)

\* mutant: the coercion also swaps the 0/1 coding of the value it writes back
ToNumeric_Invert(c) ==
    IF c.t = "num" THEN (IF c.n \in {0, 1} THEN Num(1 - c.n) ELSE c) ELSE Missing

\* pd.to_numeric(value, errors='coerce')
ToNumeric(c) == IF c.t = "num" THEN c ELSE Missing

\* df[metric_col] = pd.to_numeric(df[metric_col], errors='coerce')
CoerceMetric(d) == [i \in DOMAIN d |-> [d[i] EXCEPT !.metric = ToNumeric(@)]]

HasMetric(b) == b.metric.t = "num"

\* df.dropna(subset=[metric_col])
DropNa(d) == SelectSeq(d, HasMetric)

RECURSIVE Len_rows(_)
\* len(df): the number of rows
Len_rows(d) == IF d = <<>> THEN 0 ELSE Head(d).n + Len_rows(Tail(d))

\* df[metric_col].nunique()
NUnique(d) == Cardinality({d[i].metric.n : i \in {j \in DOMAIN d : HasMetric(d[j])}})

RECURSIVE UniqueFrom(_, _)
UniqueFrom(d, seen) ==
    IF d = <<>> THEN <<>>
    ELSE IF Head(d).variant \in seen THEN UniqueFrom(Tail(d), seen)
    ELSE <<Head(d).variant>> \o UniqueFrom(Tail(d), seen \cup {Head(d).variant})

\* df[variant_col].unique(): values in order of first appearance, NaN included
Unique(d) == UniqueFrom(d, {})

\* v1 == v2 on column values: NaN equals nothing, itself included
VariantEq(v1, v2) == v1 # NoVariant /\ v2 # NoVariant /\ v1 = v2

\* the number of rows of d with variant v and metric value m
CountCell(d, v, m) ==
    Len_rows(SelectSeq(d, LAMBDA b : VariantEq(b.variant, v) /\ HasMetric(b) /\ b.metric.n = m))

\* mutant: the table built with its margins (margins=True), a row "All" of column sums
Crosstab_Margins(d) ==
    LET kept == {i \in DOMAIN d : d[i].variant # NoVariant /\ HasMetric(d[i])}
        index == {d[i].variant : i \in kept}
        columns == {d[i].metric.n : i \in kept}
        all == IF kept = {} THEN {} ELSE {"All"}
    IN [index |-> index \cup all,
        columns |-> columns,
        cell |-> [c \in (index \cup all) \X columns |->
                     IF c[1] = "All"
                     THEN Len_rows(SelectSeq(d, LAMBDA b : b.variant # NoVariant /\ HasMetric(b)
                                                             /\ b.metric.n = c[2]))
                     ELSE CountCell(d, c[1], c[2])]]

\* mutant: rows with a missing variant kept as a row of the table
Crosstab_KeepMissing(d) ==
    LET kept == {i \in DOMAIN d : HasMetric(d[i])}
        index == {d[i].variant : i \in kept}
        columns == {d[i].metric.n : i \in kept}
    IN [index |-> index,
        columns |-> columns,
        cell |-> [c \in index \X columns |-> CountCell(d, c[1], c[2])]]

\* pd.crosstab(df[variant_col], df[metric_col]): rows with a missing key are dropped
Crosstab(d) ==
    LET kept == {i \in DOMAIN d : d[i].variant # NoVariant /\ HasMetric(d[i])}
        index == {d[i].variant : i \in kept}
        columns == {d[i].metric.n : i \in kept}
    IN [index |-> index,
        columns |-> columns,
        cell |-> [c \in index \X columns |-> CountCell(d, c[1], c[2])]]

\* DataFrame.empty
Empty(ct) == ct.index = {} \/ ct.columns = {}

\* DataFrame.shape
Shape(ct) == <<Cardinality(ct.index), Cardinality(ct.columns)>>

RECURSIVE SumOver(_, _)
SumOver(f, S) ==
    IF S = {} THEN 0
    ELSE LET x == CHOOSE y \in S : TRUE IN f[x] + SumOver(f, S \ {x})

\* contingency_table.sum(axis=1)[v]
RowTotal(ct, v) == SumOver([m \in ct.columns |-> ct.cell[<<v, m>>]], ct.columns)

\* contingency_table.sum(axis=0)[m]
ColTotal(ct, m) == SumOver([v \in ct.index |-> ct.cell[<<v, m>>]], ct.index)

GrandTotal(ct) == SumOver([v \in ct.index |-> RowTotal(ct, v)], ct.index)

----------------------------------------------------------------------------
(* scipy.stats, as called by the engines *)

\* the p-values a routine can return on data that is not degenerate
PValues == {F(Alpha - 1), F(Alpha), F(Alpha + 1)}

One == F(1000)

\* the order pandas sorts the variant labels in
Rank(v) ==
    CASE v = "A" -> 1 [] v = "B" -> 2 [] v = "C" -> 3
      [] v = "control" -> 4 [] v = "treatment" -> 5 [] OTHER -> 6

\* mutant: the grand total spread evenly over the cells
ExpectedCell_Uniform(ct, v, m) ==
    [num |-> GrandTotal(ct), den |-> Cardinality(ct.index \X ct.columns)]

\* expected frequency of a cell under independence, as the fraction num / den
ExpectedCell(ct, v, m) == [num |-> RowTotal(ct, v) * ColTotal(ct, m), den |-> GrandTotal(ct)]

ExpectedFreq(ct) == [c \in ct.index \X ct.columns |-> ExpectedCell(ct, c[1], c[2])]

\* e < bound and e >= bound for an expected frequency e = num / den, den > 0
FracLt(e, bound) == e.num < bound * e.den

FracGe(e, bound) == e.num >= bound * e.den

RECURSIVE DigitsAcc(_, _, _, _)
\* long division: acc followed by the next k decimal digits of rem / den
DigitsAcc(acc, rem, den, k) ==
    IF k = 0 THEN acc
    ELSE DigitsAcc(acc * 10 + (rem * 10) \div den, (rem * 10) % den, den, k - 1)

\* num / den in millionths, rounded down
Millionths(num, den) == DigitsAcc(num \div den, num % den, den, 6)

\* the chi-squared statistic of a 2x2 table with Yates' continuity correction
\* (correction=True, applied when dof == 1): every |observed - expected| is
\* |ad - bc| / N and is reduced by min(0.5, itself), which gives
\* N * (2 * |ad - bc| - N)^2 / (4 * r1 * r2 * c1 * c2); in millionths
YatesChi2(ct) ==
    LET r1 == CHOOSE v \in ct.index : TRUE
        r2 == CHOOSE v \in ct.index : v # r1
        c1 == CHOOSE m \in ct.columns : TRUE
        c2 == CHOOSE m \in ct.columns : m # c1
        ad == ct.cell[<<r1, c1>>] * ct.cell[<<r2, c2>>]
        bc == ct.cell[<<r1, c2>>] * ct.cell[<<r2, c1>>]
        D == IF ad >= bc THEN ad - bc ELSE bc - ad
        N == GrandTotal(ct)
    IN IF 2 * D <= N THEN 0
       ELSE Millionths(N * (2 * D - N) * (2 * D - N),
                       4 * RowTotal(ct, r1) * RowTotal(ct, r2) * ColTotal(ct, c1) * ColTotal(ct, c2))

\* chi2.sf(statistic, 1): below 0.05 exactly when the statistic exceeds the
\* critical value, 1 at a statistic of 0
Chi2Sf1(statistic) ==
    IF statistic = 0 THEN One
    ELSE IF statistic > ChiSquaredCritical THEN F(Alpha - 1) ELSE F(Alpha + 1)

\* stats.chi2_contingency(observed): (chi2, p, dof, expected), or ValueError
\* when an expected frequency is zero
chi2_contingency(ct) ==
    LET expected == ExpectedFreq(ct)
        dof == (Cardinality(ct.index) - 1) * (Cardinality(ct.columns) - 1)
    IN IF \E c \in DOMAIN expected : expected[c].num = 0
       THEN {[raised |-> TRUE, chi2 |-> NaN, p |-> NaN, dof |-> dof, expected |-> expected]}
       ELSE IF dof = 0
       THEN {[raised |-> FALSE, chi2 |-> F(0), p |-> One, dof |-> dof, expected |-> expected]}
       ELSE IF dof = 1
       THEN {[raised |-> FALSE, chi2 |-> F(YatesChi2(ct)), p |-> Chi2Sf1(YatesChi2(ct)),
              dof |-> dof, expected |-> expected]}
       ELSE {[raised |-> FALSE, chi2 |-> Finite, p |-> p, dof |-> dof, expected |-> expected] :
                p \in PValues}

\* stats.fisher_exact(table) on a 2x2 table: (odds_ratio, p)
fisher_exact(ct) ==
    LET r1 == CHOOSE v \in ct.index : \A w \in ct.index : Rank(v) <= Rank(w)
        r2 == CHOOSE v \in ct.index : v # r1
        c1 == CHOOSE m \in ct.columns : \A k \in ct.columns : m <= k
        c2 == CHOOSE m \in ct.columns : m # c1
        ad == ct.cell[<<r1, c1>>] * ct.cell[<<r2, c2>>]
        bc == ct.cell[<<r1, c2>>] * ct.cell[<<r2, c1>>]
        odds == IF bc > 0 THEN Finite ELSE IF ad > 0 THEN Inf ELSE NaN
    IN {[odds_ratio |-> odds, p |-> p] : p \in PValues}

----------------------------------------------------------------------------
(* discrete_tests.py *)

DiscreteResults ==
    [status |-> "success", error_message |-> None, contingency_table |-> None,
     expected_frequencies |-> None, percentage_small_expected |-> None,
     observed_rates_df |-> None, plot_figure |-> None, test_method |-> None,
     p_value |-> None, chi2_statistic |-> None, dof |-> None, odds_ratio |-> None,
     conclusion |-> None, interpretation |-> None, raw_conversion_rates |-> None]

Pearson == "Pearson's Chi-squared Test"

Fisher == "Fisher's Exact Test (due to small expected cell counts)"

\* mutant: the error status set without its message
SetError_NoMessage(res, msg) == [res EXCEPT !.status = "error"]

\* results["status"] = "error"; results["error_message"] = msg
SetError(res, msg) == [res EXCEPT !.status = "error", !.error_message = Some(msg)]

\* (expected < 5).sum()
SmallExpectedCells(expected) ==
    Cardinality({c \in DOMAIN expected : FracLt(expected[c], SmallExpected)})

\* mutant: half of the cells allowed to be small
ChiSquaredAssumptions_Half(expected) ==
    /\ SmallExpectedCells(expected) * 100 <= 50 * Cardinality(DOMAIN expected)
    /\ \A c \in DOMAIN expected : FracGe(expected[c], MinExpected)

\* percentage_small_expected <= 20 and np.all(expected >= 1)
ChiSquaredAssumptions(expected) ==
    /\ SmallExpectedCells(expected) * 100 <= MaxSmallPct * Cardinality(DOMAIN expected)
    /\ \A c \in DOMAIN expected : FracGe(expected[c], MinExpected)

\* mutant: 0 preferred to 1 as the success outcome
MetricSuccessIndex_ZeroFirst(ct) ==
    IF 0 \in ct.columns THEN Some(0) ELSE IF 1 \in ct.columns THEN Some(1) ELSE None

\* 1 if 1 in contingency_table.columns else (0 if 0 in contingency_table.columns else None)
MetricSuccessIndex(ct) ==
    IF 1 \in ct.columns THEN Some(1) ELSE IF 0 \in ct.columns THEN Some(0) ELSE None

RECURSIVE IsqrtIn(_, _, _)
\* the integer square root of x, searched between lo and hi
IsqrtIn(x, lo, hi) ==
    IF lo >= hi THEN lo
    ELSE LET mid == (lo + hi + 1) \div 2
         IN IF mid * mid <= x THEN IsqrtIn(x, mid, hi) ELSE IsqrtIn(x, lo, mid - 1)

\* z * sqrt(q * (1 - q) / nobs) for q = count / nobs, in thousandths
HalfWidth(count, nobs) ==
    IsqrtIn(((ZSquared \div nobs) * count * (nobs - count)) \div (nobs * nobs), 0, One.v)

Max(a, b) == IF a >= b THEN a ELSE b

Min(a, b) == IF a <= b THEN a ELSE b

\* mutant: the two ends of the interval returned in the other order
ProportionConfint_Swapped(count, nobs) ==
    LET q == (One.v * count) \div nobs
    IN [low |-> Min(q + HalfWidth(count, nobs), One.v), upp |-> Max(q - HalfWidth(count, nobs), 0)]

\* sm.stats.proportion_confint(count, nobs, alpha=0.05, method='normal'):
\* q -+ z * std, clipped to [0, 1]; in thousandths
ProportionConfint(count, nobs) ==
    LET q == (One.v * count) \div nobs
    IN [low |-> Max(q - HalfWidth(count, nobs), 0), upp |-> Min(q + HalfWidth(count, nobs), One.v)]

\* the rows of plot_df: per variant the successes, the trials, the conversion
\* rate and its confidence interval (thousandths)
ObservedRates(ct, success) ==
    [v \in ct.index |->
        LET count == ct.cell[<<v, success>>]
            nobs == RowTotal(ct, v)
        IN [Successes |-> count,
            Trials |-> nobs,
            Conversion_Rate |-> (One.v * count) \div nobs,
            CI_Lower |-> ProportionConfint(count, nobs).low,
            CI_Upper |-> ProportionConfint(count, nobs).upp]]

\* plot_df[[variant_col, 'Conversion_Rate', 'CI_Lower', 'CI_Upper']]
RatesTable(plot_df) ==
    [v \in DOMAIN plot_df |-> [Conversion_Rate |-> plot_df[v].Conversion_Rate,
                               CI_Lower |-> plot_df[v].CI_Lower,
                               CI_Upper |-> plot_df[v].CI_Upper]]

\* conversion_rates * 100
RawRates(plot_df) == [v \in DOMAIN plot_df |-> plot_df[v].Conversion_Rate]

\* mutant: a p-value of exactly 0.05 taken as significant
IsSignificant_AtMost(p_val) == p_val.k = "num" /\ p_val.v <= Alpha

\* the conclusion and interpretation of both engines: p_val < 0.05
IsSignificant(p_val) == FloatLt(p_val, Alpha)

Conclusion(p_val) ==
    IF IsSignificant(p_val) THEN "statistically significant" ELSE "not statistically significant"

DiscreteInterpretation(p_val) ==
    IF IsSignificant(p_val) THEN "variant_col has a significant effect on metric_col"
    ELSE "not enough evidence"

\* contingency_table.shape == (2, 2)
IsTwoByTwo(ct) == Shape(ct) = <<2, 2>>

\* lines 76-123: rates, confidence intervals and figure, or the warning message
WithRates(res, ct) ==
    LET idx == MetricSuccessIndex(ct)
    IN IF idx # None /\ idx[1] \in ct.columns
       THEN [res EXCEPT !.observed_rates_df = Some(RatesTable(ObservedRates(ct, idx[1]))),
                        !.raw_conversion_rates = Some(RawRates(ObservedRates(ct, idx[1]))),
                        !.plot_figure = Some("fig_discrete")]
       ELSE [res EXCEPT !.error_message = Some("Could not determine success column")]

\* mutant: chi-squared reported as a fallback when Fisher's test needs a 2x2 table
WithTest_Fallback(res, ct, chi) ==
    IF ChiSquaredAssumptions(chi.expected) \/ ~IsTwoByTwo(ct)
    THEN {[res EXCEPT !.test_method = Some(Pearson),
                      !.chi2_statistic = Some(chi.chi2),
                      !.dof = Some(chi.dof),
                      !.p_value = Some(chi.p),
                      !.conclusion = Some(Conclusion(chi.p)),
                      !.interpretation = Some(DiscreteInterpretation(chi.p))]}
    ELSE {[res EXCEPT !.test_method = Some(Fisher),
                      !.p_value = Some(fe.p),
                      !.odds_ratio = Some(fe.odds_ratio),
                      !.conclusion = Some(Conclusion(fe.p)),
                      !.interpretation = Some(DiscreteInterpretation(fe.p))] :
             fe \in fisher_exact(ct)}

\* mutant: the chi-squared statistic and dof of line 66 stored on the Fisher branch too
WithTest_ChiKept(res, ct, chi) ==
    IF ChiSquaredAssumptions(chi.expected)
    THEN {[res EXCEPT !.test_method = Some(Pearson),
                      !.chi2_statistic = Some(chi.chi2),
                      !.dof = Some(chi.dof),
                      !.p_value = Some(chi.p),
                      !.conclusion = Some(Conclusion(chi.p)),
                      !.interpretation = Some(DiscreteInterpretation(chi.p))]}
    ELSE IF IsTwoByTwo(ct)
    THEN {[res EXCEPT !.test_method = Some(Fisher),
                      !.chi2_statistic = Some(chi.chi2),
                      !.dof = Some(chi.dof),
                      !.p_value = Some(fe.p),
                      !.odds_ratio = Some(fe.odds_ratio),
                      !.conclusion = Some(Conclusion(fe.p)),
                      !.interpretation = Some(DiscreteInterpretation(fe.p))] :
             fe \in fisher_exact(ct)}
    ELSE {SetError([res EXCEPT !.test_method = Some(Fisher)], "Fisher requires a 2x2 table")}

\* lines 125-156: the statistical test logic
WithTest(res, ct, chi) ==
    IF ChiSquaredAssumptions(chi.expected)
    THEN {[res EXCEPT !.test_method = Some(Pearson),
                      !.chi2_statistic = Some(chi.chi2),
                      !.dof = Some(chi.dof),
                      !.p_value = Some(chi.p),
                      !.conclusion = Some(Conclusion(chi.p)),
                      !.interpretation = Some(DiscreteInterpretation(chi.p))]}
    ELSE IF IsTwoByTwo(ct)
    THEN {[res EXCEPT !.test_method = Some(Fisher),
                      !.p_value = Some(fe.p),
                      !.odds_ratio = Some(fe.odds_ratio),
                      !.conclusion = Some(Conclusion(fe.p)),
                      !.interpretation = Some(DiscreteInterpretation(fe.p))] :
             fe \in fisher_exact(ct)}
    ELSE {SetError([res EXCEPT !.test_method = Some(Fisher)], "Fisher requires a 2x2 table")}

\* mutant: two distinct values already rejected
TooManyLevels_AtLeast(df_cleaned) == NUnique(df_cleaned) >= 2

\* df_cleaned[metric_col].nunique() > 2
TooManyLevels(df_cleaned) == NUnique(df_cleaned) > 2

Returned(d, res) == [df |-> d, outcome |-> "returned", results |-> res]

Raised(d) == [df |-> d, outcome |-> "raised", results |-> None]

\* perform_discrete_ab_test(df, variant_col, metric_col): the set of ways the
\* call can end, each with the caller's table as the call leaves it
perform_discrete_ab_test(d) ==
    LET d1 == CoerceMetric(d)
        df_cleaned == DropNa(d1)
        contingency_table == Crosstab(df_cleaned)
    IN IF TooManyLevels(df_cleaned)
       THEN {Returned(d1, SetError(DiscreteResults, "more than two unique values"))}
       ELSE IF Empty(contingency_table)
       THEN {Returned(d1, SetError(DiscreteResults, "Could not create a contingency table"))}
       ELSE UNION {
              IF chi.raised THEN {Raised(d1)}
              ELSE {Returned(d1, r) :
                      r \in WithTest(
                              WithRates(
                                [DiscreteResults EXCEPT
                                   !.contingency_table = Some(contingency_table),
                                   !.expected_frequencies = Some(chi.expected),
                                   !.percentage_small_expected =
                                       Some([num |-> SmallExpectedCells(chi.expected) * 100,
                                             den |-> Cardinality(DOMAIN chi.expected)])],
                                contingency_table),
                              contingency_table, chi)} :
              chi \in chi2_contingency(contingency_table)}

----------------------------------------------------------------------------
(* scipy.stats routines of the continuous engine.  A group is the function *)
(* from metric value to the number of its rows with that value.            *)

\* df_cleaned[df_cleaned[variant_col] == v][metric_col]
Group(d, v) == [m \in MetricLevels |-> CountCell(d, v, m)]

\* len(group)
GroupN(g) == SumOver(g, DOMAIN g)

\* group.sum()
GroupSum(g) == SumOver([m \in DOMAIN g |-> m * g[m]], DOMAIN g)

Present(g) == {m \in DOMAIN g : g[m] > 0}

\* the absolute deviations from the group's median are all equal: a constant
\* group, or two values with equally many rows each
ConstantDeviation(g) ==
    \/ Cardinality(Present(g)) <= 1
    \/ /\ Cardinality(Present(g)) = 2
       /\ \A m1, m2 \in Present(g) : g[m1] = g[m2]

\* twice that deviation
TwiceDeviation(g) ==
    IF Cardinality(Present(g)) <= 1 THEN 0
    ELSE LET hi == CHOOSE m \in Present(g) : \A k \in Present(g) : k <= m
             lo == CHOOSE m \in Present(g) : \A k \in Present(g) : m <= k
         IN hi - lo

\* stats.shapiro(x): below 3 observations it raises ValueError (or, in newer
\* scipy, returns NaN); data of range zero gives W = 1, p = 1
shapiro(g) ==
    IF GroupN(g) < ShapiroMinN
    THEN {[raised |-> TRUE, p |-> NaN], [raised |-> FALSE, p |-> NaN]}
    ELSE IF Cardinality(Present(g)) = 1
    THEN {[raised |-> FALSE, p |-> One]}
    ELSE {[raised |-> FALSE, p |-> p] : p \in PValues}

\* stats.levene(a, b): W = numer / denom; denom = 0 when the deviations from
\* the median are constant within each group
levene(ga, gb) ==
    IF GroupN(ga) = 0 \/ GroupN(gb) = 0 THEN {NaN}
    ELSE IF ConstantDeviation(ga) /\ ConstantDeviation(gb)
    THEN IF TwiceDeviation(ga) = TwiceDeviation(gb) \/ GroupN(ga) + GroupN(gb) <= 2
         THEN {NaN} ELSE {F(0)}
    ELSE PValues

\* stats.mannwhitneyu(a, b, alternative='two-sided'): (statistic, p)
mannwhitneyu(ga, gb) ==
    IF GroupN(ga) = 0 \/ GroupN(gb) = 0 THEN {[statistic |-> NaN, p |-> NaN]}
    ELSE {[statistic |-> Finite, p |-> p] : p \in PValues}

\* stats.ttest_ind(a, b, equal_var=..., alternative='two-sided'): (statistic, p);
\* t = (mean_a - mean_b) / denom, the variance of one observation is undefined
ttest_ind(ga, gb, equal_var) ==
    IF GroupN(ga) < 2 \/ GroupN(gb) < 2 THEN {[statistic |-> NaN, p |-> NaN]}
    ELSE IF Cardinality(Present(ga)) = 1 /\ Cardinality(Present(gb)) = 1
    THEN IF GroupSum(ga) * GroupN(gb) = GroupSum(gb) * GroupN(ga)
         THEN {[statistic |-> NaN, p |-> NaN]}
         ELSE {[statistic |-> Inf, p |-> F(0)]}
    ELSE {[statistic |-> Finite, p |-> p] : p \in PValues}

----------------------------------------------------------------------------
(* continuous_tests.py *)

ContinuousResults ==
    [status |-> "success", error_message |-> None, group_stats |-> None,
     plot_figure |-> None, is_large_sample |-> FALSE, shapiro_a_p |-> None,
     shapiro_b_p |-> None, is_normal_a |-> None, is_normal_b |-> None,
     levene_p |-> None, variances_similar |-> None, test_method |-> None,
     statistic |-> None, p_value |-> None, conclusion |-> None, interpretation |-> None]

MannWhitney == "Mann-Whitney U Test (Non-parametric)"

Student == "Student's t-Test (Equal Variances)"

Welch == "Welch's t-Test (Unequal Variances)"

\* mutant: the large-sample threshold taken as strict
IsLargeSample_Strict(na, nb) == na > LargeSampleN /\ nb > LargeSampleN

\* len(group_a) >= 30 and len(group_b) >= 30
IsLargeSample(na, nb) == na >= LargeSampleN /\ nb >= LargeSampleN

\* shapiro_p > 0.05
IsNormal(shapiro_p) == FloatGt(shapiro_p, Alpha)

\* mutant: a Levene p-value of exactly 0.05 taken as similar variances
VariancesSimilar_AtLeast(levene_p) == levene_p.k = "num" /\ levene_p.v >= Alpha

\* levene_p > 0.05
VariancesSimilar(levene_p) == FloatGt(levene_p, Alpha)

\* mutant: Mann-Whitney only when both groups fail the normality test
UseMannWhitney_Both(is_large_sample, is_normal_a, is_normal_b) ==
    ~is_large_sample /\ (~is_normal_a /\ ~is_normal_b)

\* not is_large_sample and (not is_normal_a or not is_normal_b)
UseMannWhitney(is_large_sample, is_normal_a, is_normal_b) ==
    ~is_large_sample /\ (~is_normal_a \/ ~is_normal_b)

\* lines 108-119: the chosen method with the (statistic, p) it returns
ChooseTest(res, ga, gb) ==
    IF UseMannWhitney(res.is_large_sample, res.is_normal_a[1], res.is_normal_b[1])
    THEN {[test_method |-> MannWhitney, statistic |-> t.statistic, p_val |-> Some(t.p)] :
            t \in mannwhitneyu(ga, gb)}
    ELSE IF res.variances_similar[1]
    THEN {[test_method |-> Student, statistic |-> t.statistic, p_val |-> Some(t.p)] :
            t \in ttest_ind(ga, gb, TRUE)}
    ELSE {[test_method |-> Welch, statistic |-> t.statistic, p_val |-> Some(t.p)] :
            t \in ttest_ind(ga, gb, FALSE)}

ContinuousInterpretation(p_val, variants) ==
    IF IsSignificant(p_val)
    THEN <<variants[2], "has a significant impact on metric_col compared to", variants[1]>>
    ELSE <<"not enough evidence">>

\* lines 121-144: store the test and derive the conclusion
Conclude(res, test, variants) ==
    LET r == [res EXCEPT !.test_method = Some(test.test_method),
                         !.statistic = Some(test.statistic),
                         !.p_value = test.p_val]
    IN IF test.p_val # None
       THEN [r EXCEPT !.conclusion = Some(Conclusion(test.p_val[1])),
                      !.interpretation = Some(ContinuousInterpretation(test.p_val[1], variants))]
       ELSE SetError(r, "Could not perform statistical test")

\* mutant: the Shapiro-Wilk p-values left out for large samples
Diagnostics_SkipLarge(variants, ga, gb, sa, sb, lev) ==
    [ContinuousResults EXCEPT
       !.group_stats = Some(<<[variant |-> variants[1], N |-> GroupN(ga), Sum |-> GroupSum(ga)],
                              [variant |-> variants[2], N |-> GroupN(gb), Sum |-> GroupSum(gb)]>>),
       !.plot_figure = Some("fig_continuous"),
       !.is_large_sample = IsLargeSample(GroupN(ga), GroupN(gb)),
       !.shapiro_a_p = IF IsLargeSample(GroupN(ga), GroupN(gb)) THEN None ELSE Some(sa.p),
       !.shapiro_b_p = IF IsLargeSample(GroupN(ga), GroupN(gb)) THEN None ELSE Some(sb.p),
       !.is_normal_a = Some(IsNormal(sa.p)),
       !.is_normal_b = Some(IsNormal(sb.p)),
       !.levene_p = Some(lev),
       !.variances_similar = Some(VariancesSimilar(lev))]

\* lines 63-99: group statistics, figure and assumption checks
Diagnostics(variants, ga, gb, sa, sb, lev) ==
    [ContinuousResults EXCEPT
       !.group_stats = Some(<<[variant |-> variants[1], N |-> GroupN(ga), Sum |-> GroupSum(ga)],
                              [variant |-> variants[2], N |-> GroupN(gb), Sum |-> GroupSum(gb)]>>),
       !.plot_figure = Some("fig_continuous"),
       !.is_large_sample = IsLargeSample(GroupN(ga), GroupN(gb)),
       !.shapiro_a_p = Some(sa.p),
       !.shapiro_b_p = Some(sb.p),
       !.is_normal_a = Some(IsNormal(sa.p)),
       !.is_normal_b = Some(IsNormal(sb.p)),
       !.levene_p = Some(lev),
       !.variances_similar = Some(VariancesSimilar(lev))]

\* mutant: the variant count checked before the metric values
ContinuousValidation_VariantsFirst(df_cleaned) ==
    IF Len(Unique(df_cleaned)) # 2 THEN Some("Expected exactly two variants")
    ELSE IF NUnique(df_cleaned) < 2 THEN Some("not enough unique values")
    ELSE None

\* lines 45-61: the two validation checks in their order; the message of the
\* first that fails, None when both pass
ContinuousValidation(df_cleaned) ==
    IF NUnique(df_cleaned) < 2 THEN Some("not enough unique values")
    ELSE IF Len(Unique(df_cleaned)) # 2 THEN Some("Expected exactly two variants")
    ELSE None

\* perform_continuous_ab_test(df, variant_col, metric_col): the set of ways the
\* call can end, each with the caller's table as the call leaves it
perform_continuous_ab_test(d) ==
    LET d1 == CoerceMetric(d)
        df_cleaned == DropNa(d1)
        variants == Unique(df_cleaned)
    IN IF ContinuousValidation(df_cleaned) # None
       THEN {Returned(d1, SetError(ContinuousResults, ContinuousValidation(df_cleaned)[1]))}
       ELSE LET group_a == Group(df_cleaned, variants[1])
                group_b == Group(df_cleaned, variants[2])
            IN UNION {
                 IF sa.raised THEN {Raised(d1)}
                 ELSE UNION {
                        IF sb.raised THEN {Raised(d1)}
                        ELSE UNION {
                               {Returned(d1, Conclude(Diagnostics(variants, group_a, group_b,
                                                                   sa, sb, lev),
                                                      test, variants)) :
                                  test \in ChooseTest(Diagnostics(variants, group_a, group_b,
                                                                  sa, sb, lev),
                                                      group_a, group_b)} :
                               lev \in levene(group_a, group_b)} :
                        sb \in shapiro(group_b)} :
                 sa \in shapiro(group_a)}

----------------------------------------------------------------------------
(* The caller: a table, then one call of one engine on it *)

NoResults == None

\* the application's state when no application is running
NoApp == [df |-> None, uploaded |-> None, shown |-> None]

Init ==
    /\ df \in Tables
    /\ call = "none"
    /\ outcome = "none"
    /\ results = NoResults
    /\ app = NoApp

\* results = perform_discrete_ab_test(df, variant_col, metric_col)
CallDiscrete ==
    /\ outcome = "none"
    /\ \E o \in perform_discrete_ab_test(df) :
         /\ df' = o.df
         /\ outcome' = o.outcome
         /\ results' = o.results
    /\ call' = "discrete"
    /\ UNCHANGED app

\* results = perform_continuous_ab_test(df, variant_col, metric_col)
CallContinuous ==
    /\ outcome = "none"
    /\ \E o \in perform_continuous_ab_test(df) :
         /\ df' = o.df
         /\ outcome' = o.outcome
         /\ results' = o.results
    /\ call' = "continuous"
    /\ UNCHANGED app

Next == CallDiscrete \/ CallContinuous

Spec == Init /\ [][Next]_vars

----------------------------------------------------------------------------
(* The caller with a conversion table of two arms: ExampleTrials rows per *)
(* arm, a number of them successes (metric 1), the others failures (0).   *)

ExampleTrials == 80

ExampleSuccesses == {5, 10, 15, 20, 25}

ExampleTable(control, treatment) ==
    <<[variant |-> "control", metric |-> Num(0), n |-> ExampleTrials - control],
      [variant |-> "control", metric |-> Num(1), n |-> control],
      [variant |-> "treatment", metric |-> Num(0), n |-> ExampleTrials - treatment],
      [variant |-> "treatment", metric |-> Num(1), n |-> treatment]>>

ExampleTables == {ExampleTable(c, t) : c \in ExampleSuccesses, t \in ExampleSuccesses}

InitExample ==
    /\ df \in ExampleTables
    /\ call = "none"
    /\ outcome = "none"
    /\ results = NoResults
    /\ app = NoApp

SpecExample == InitExample /\ [][Next]_vars

----------------------------------------------------------------------------
(* Streamlit/app.py: a CSV file is uploaded into the session state, then   *)
(* Run Analysis is pressed any number of times with the metric type set to *)
(* Discrete or Continuous.  app.df is st.session_state['df'], app.uploaded *)
(* the table as it was read from the file, app.shown the two variant names *)
(* printed next to the Shapiro-Wilk p-values.  df is the table object the  *)
(* engine is given.                                                        *)

\* files of at most one block of any rows
SingleBlockTables == {<<>>} \cup {<<b>> : b \in Blocks}

\* WideTables with the same number of rows in each block
EvenWideTables == {t \in WideTables : t[1].n = t[2].n /\ t[2].n = t[3].n}

\* two different blocks of clean rows after a few rows without a variant
UnassignedTables ==
    {<<[variant |-> NoVariant, metric |-> t[1].metric, n |-> TinyN], t[1], t[2]>> :
        t \in {u \in CleanBlocks \X CleanBlocks : ~SameCell(u[1], u[2])}}

\* the files uploaded
AppTables ==
    MixedTables \cup LeadingTables \cup SingleBlockTables \cup EvenWideTables
                \cup UnassignedTables

InitApp ==
    /\ app = NoApp
    /\ df = <<>>
    /\ call = "none"
    /\ outcome = "none"
    /\ results = NoResults

\* df = pd.read_csv(uploaded_file); st.session_state['df'] = df
UploadFile ==
    /\ app.df = None
    /\ \E t \in AppTables : app' = [df |-> Some(t), uploaded |-> Some(t), shown |-> None]
    /\ UNCHANGED <<df, call, outcome, results>>

\* mutant: the session's table itself handed to the engine
SessionAfter_Shared(session_df, argument_after) == argument_after

\* the session's table after the engine ran on st.session_state['df'].copy()
SessionAfter(session_df, argument_after) == session_df

\* st.session_state['df'][variant_column].dropna().unique()
RawVariants(d) == Unique(SelectSeq(d, LAMBDA b : b.variant # NoVariant))

\* lines 194-201: the names printed next to shapiro_a_p and shapiro_b_p
ShapiroLabels(session_df, o) ==
    IF o.outcome = "returned" /\ o.results.status = "success" /\ ~o.results.is_large_sample
                              /\ Len(RawVariants(session_df)) >= 2
    THEN Some(<<RawVariants(session_df)[1], RawVariants(session_df)[2]>>)
    ELSE None

\* Run Analysis with metric_type == 'Discrete'
RunDiscrete ==
    /\ app.df # None
    /\ \E o \in perform_discrete_ab_test(app.df[1]) :
         /\ df' = o.df
         /\ outcome' = o.outcome
         /\ results' = o.results
         /\ app' = [app EXCEPT !.df = Some(SessionAfter(app.df[1], o.df)), !.shown = None]
    /\ call' = "discrete"

\* Run Analysis with metric_type == 'Continuous'
RunContinuous ==
    /\ app.df # None
    /\ \E o \in perform_continuous_ab_test(app.df[1]) :
         /\ df' = o.df
         /\ outcome' = o.outcome
         /\ results' = o.results
         /\ app' = [app EXCEPT !.df = Some(SessionAfter(app.df[1], o.df)),
                               !.shown = ShapiroLabels(SessionAfter(app.df[1], o.df), o)]
    /\ call' = "continuous"

NextApp == UploadFile \/ RunDiscrete \/ RunContinuous

SpecApp == InitApp /\ [][NextApp]_vars

----------------------------------------------------------------------------
(* app.py (and its copy unnamed/part_000): the in-app variants of the two  *)
(* test functions.  They return nothing and report through the page, so a  *)
(* call is described by its decisions: how it ended, the check whose       *)
(* st.error stopped it, the test method it announced and the conclusion it *)
(* displayed.                                                              *)

Decided(error, test_method, p_value, conclusion) ==
    [outcome |-> "returned", error |-> error, test_method |-> test_method,
     p_value |-> p_value, conclusion |-> conclusion]

Crashed ==
    [outcome |-> "raised", error |-> None, test_method |-> None, p_value |-> None,
     conclusion |-> None]

\* mutant: a p-value of exactly 0.05 displayed as significant
app_conclusion_AtMost(p_val) ==
    IF p_val.k = "num" /\ p_val.v <= Alpha THEN "statistically significant"
    ELSE "not statistically significant"

\* if p_val < 0.05: st.success(...) else: st.info(...)
app_conclusion(p_val) ==
    IF FloatLt(p_val, Alpha) THEN "statistically significant"
    ELSE "not statistically significant"

\* app.py lines 131-186: the statistical test output of the discrete variant
app_discrete_test(contingency_table, chi) ==
    IF /\ SmallExpectedCells(chi.expected) * 100 <= 20 * Cardinality(DOMAIN chi.expected)
       /\ \A c \in DOMAIN chi.expected : FracGe(chi.expected[c], 1)
    THEN {Decided(None, Some(Pearson), Some(chi.p), Some(app_conclusion(chi.p)))}
    ELSE IF Shape(contingency_table) = <<2, 2>>
    THEN {Decided(None, Some(Fisher), Some(fe.p), Some(app_conclusion(fe.p))) :
            fe \in fisher_exact(contingency_table)}
    ELSE {Decided(Some("Fisher requires a 2x2 table"), Some(Fisher), None, None)}

\* app.py lines 27-186: perform_discrete_ab_test(df, variant_col, metric_col)
app_perform_discrete_ab_test(d) ==
    LET df_cleaned == DropNa(CoerceMetric(d))
        contingency_table == Crosstab(df_cleaned)
    IN IF NUnique(df_cleaned) > 2
       THEN {Decided(Some("more than two unique values"), None, None, None)}
       ELSE IF Empty(contingency_table)
       THEN {Decided(Some("Could not create a contingency table"), None, None, None)}
       ELSE UNION {
              IF chi.raised THEN {Crashed}
              ELSE app_discrete_test(contingency_table, chi) :
              chi \in chi2_contingency(contingency_table)}

\* app.py lines 229-287: the test chosen by the continuous variant and its conclusion
app_continuous_test(group_a, group_b, shapiro_a_p, shapiro_b_p, levene_p) ==
    LET is_large_sample == GroupN(group_a) >= 30 /\ GroupN(group_b) >= 30
        is_normal_a == FloatGt(shapiro_a_p, Alpha)
        is_normal_b == FloatGt(shapiro_b_p, Alpha)
    IN IF ~is_large_sample /\ (~is_normal_a \/ ~is_normal_b)
       THEN {Decided(None, Some(MannWhitney), Some(t.p), Some(app_conclusion(t.p))) :
               t \in mannwhitneyu(group_a, group_b)}
       ELSE IF FloatGt(levene_p, Alpha)
       THEN {Decided(None, Some(Student), Some(t.p), Some(app_conclusion(t.p))) :
               t \in ttest_ind(group_a, group_b, TRUE)}
       ELSE {Decided(None, Some(Welch), Some(t.p), Some(app_conclusion(t.p))) :
               t \in ttest_ind(group_a, group_b, FALSE)}

\* app.py lines 187-287: perform_continuous_ab_test(df, variant_col, metric_col)
app_perform_continuous_ab_test(d) ==
    LET df_cleaned == DropNa(CoerceMetric(d))
        variants == Unique(df_cleaned)
    IN IF NUnique(df_cleaned) < 2
       THEN {Decided(Some("not enough unique values"), None, None, None)}
       ELSE IF Len(variants) # 2
       THEN {Decided(Some("Expected exactly two variants"), None, None, None)}
       ELSE LET group_a == Group(df_cleaned, variants[1])
                group_b == Group(df_cleaned, variants[2])
            IN UNION {
                 IF sa.raised THEN {Crashed}
                 ELSE UNION {
                        IF sb.raised THEN {Crashed}
                        ELSE UNION {
                               app_continuous_test(group_a, group_b, sa.p, sb.p, lev) :
                               lev \in levene(group_a, group_b)} :
                        sb \in shapiro(group_b)} :
                 sa \in shapiro(group_a)}

\* the decisions of a call of a canonical engine, read from what it returns
DecisionOf(o) ==
    IF o.outcome = "raised" THEN Crashed
    ELSE Decided(IF o.results.status = "error" THEN o.results.error_message ELSE None,
                 o.results.test_method, o.results.p_value, o.results.conclusion)

----------------------------------------------------------------------------
(* Properties *)

DiscreteDone == call = "discrete" /\ outcome = "returned"

ContinuousDone == call = "continuous" /\ outcome = "returned"

\* the distinct non-missing variant values of the cleaned rows of a table
CleanVariants(d) == {d[i].variant : i \in {j \in DOMAIN d : HasMetric(d[j]) /\ d[j].variant # NoVariant}}

IsSet(field) == field # None

Unset(field) == field = None

\* C1: a table whose variant column has a number of distinct values other than 2
\* among the cleaned rows makes either engine return status=error with no
\* p-value and no test statistic.
C1_VariantCountRejected ==
    (outcome = "returned" /\ Cardinality(CleanVariants(df)) # 2) =>
        /\ results.status = "error"
        /\ Unset(results.p_value)
        /\ (call = "discrete" => Unset(results.chi2_statistic) /\ Unset(results.odds_ratio))
        /\ (call = "continuous" => Unset(results.statistic))

AtMostAlpha(p) == p.k = "num" /\ p.v <= Alpha

AboveAlpha(p) == p.k = "num" /\ p.v >= Alpha + 1

\* C3: when at least one group has fewer than 30 observations and at least one
\* Shapiro-Wilk p-value is <= 0.05, the continuous engine chooses Mann-Whitney U.
C3_SmallNonNormalMannWhitney ==
    (/\ ContinuousDone
     /\ IsSet(results.group_stats)
     /\ \/ results.group_stats[1][1].N < LargeSampleN
        \/ results.group_stats[1][2].N < LargeSampleN
     /\ \/ AtMostAlpha(results.shapiro_a_p[1])
        \/ AtMostAlpha(results.shapiro_b_p[1])) =>
        results.test_method = Some(MannWhitney)

\* C3 witness: 30 rows against 29, one Shapiro-Wilk p-value exactly 0.05 and the
\* other above it, tested with Mann-Whitney U.
C3_Witness ==
    /\ ContinuousDone
    /\ IsSet(results.group_stats)
    /\ results.group_stats[1][1].N = LargeSampleN
    /\ results.group_stats[1][2].N = LargeSampleN - 1
    /\ results.shapiro_a_p = Some(F(Alpha))
    /\ AboveAlpha(results.shapiro_b_p[1])
    /\ results.test_method = Some(MannWhitney)

\* C4: when the Mann-Whitney branch is not taken (large sample, or both groups
\* normal) the method is Student's t-test if the Levene p-value is strictly
\* above 0.05 and Welch's t-test otherwise, an undefined p-value included.
C4_LeveneDecidesStudentOrWelch ==
    (/\ ContinuousDone
     /\ IsSet(results.group_stats)
     /\ \/ /\ results.group_stats[1][1].N >= LargeSampleN
           /\ results.group_stats[1][2].N >= LargeSampleN
        \/ /\ AboveAlpha(results.shapiro_a_p[1])
           /\ AboveAlpha(results.shapiro_b_p[1])) =>
        IF AboveAlpha(results.levene_p[1])
        THEN results.test_method = Some(Student)
        ELSE results.test_method = Some(Welch)

\* C4 witness: a Levene p-value of exactly 0.05 tested with Welch's t-test.
C4_Witness ==
    /\ ContinuousDone
    /\ IsSet(results.levene_p)
    /\ results.levene_p = Some(F(Alpha))
    /\ results.test_method = Some(Welch)

\* an undefined Levene p-value tested with Welch's t-test
C4_UndefinedLevene ==
    /\ ContinuousDone
    /\ IsSet(results.levene_p)
    /\ results.levene_p = Some(NaN)
    /\ results.test_method = Some(Welch)

\* the chi-squared assumptions, read off a contingency table
SmallCells(ct) ==
    {c \in ct.index \X ct.columns :
        RowTotal(ct, c[1]) * ColTotal(ct, c[2]) < SmallExpected * GrandTotal(ct)}

AssumptionsHold(ct) ==
    /\ Cardinality(SmallCells(ct)) * 100 <= MaxSmallPct * Cardinality(ct.index \X ct.columns)
    /\ \A c \in ct.index \X ct.columns :
          RowTotal(ct, c[1]) * ColTotal(ct, c[2]) >= MinExpected * GrandTotal(ct)

\* C5: the discrete engine chooses Pearson's chi-squared exactly when at most 20%
\* of the expected cells are below 5 and every expected cell is at least 1, and
\* takes the Fisher branch otherwise; a 2x2 table with all expected cells >= 5
\* is tested with Pearson's chi-squared.
C5_PearsonIffAssumptions ==
    (DiscreteDone /\ IsSet(results.contingency_table)) =>
        LET ct == results.contingency_table[1]
        IN /\ results.test_method = Some(Pearson) <=> AssumptionsHold(ct)
           /\ ~AssumptionsHold(ct) => results.test_method = Some(Fisher)
           /\ (Shape(ct) = <<2, 2>> /\ SmallCells(ct) = {}) =>
                 results.test_method = Some(Pearson)

\* C5 witness: a 2x2 table, all expected cells >= 5, tested with Pearson's
\* chi-squared and found significant.
C5_Witness ==
    /\ DiscreteDone
    /\ IsSet(results.contingency_table)
    /\ Shape(results.contingency_table[1]) = <<2, 2>>
    /\ SmallCells(results.contingency_table[1]) = {}
    /\ results.test_method = Some(Pearson)
    /\ results.p_value = Some(F(Alpha - 1))

\* a table with a small expected cell, every expected cell at least 1, sent to Fisher
C5_FisherBranch ==
    /\ DiscreteDone
    /\ IsSet(results.contingency_table)
    /\ SmallCells(results.contingency_table[1]) # {}
    /\ \A c \in DOMAIN results.expected_frequencies[1] :
          FracGe(results.expected_frequencies[1][c], MinExpected)
    /\ results.test_method = Some(Fisher)

\* C6: when the chi-squared assumptions fail and the contingency table is not 2x2,
\* the discrete call ends with status=error and a message, without a fallback
\* test: p_value, odds_ratio and conclusion stay unset.
C6_FisherNeedsTwoByTwo ==
    (/\ DiscreteDone
     /\ IsSet(results.contingency_table)
     /\ ~AssumptionsHold(results.contingency_table[1])
     /\ Shape(results.contingency_table[1]) # <<2, 2>>) =>
        /\ results.status = "error"
        /\ IsSet(results.error_message)
        /\ Unset(results.p_value)
        /\ Unset(results.odds_ratio)
        /\ Unset(results.chi2_statistic)
        /\ Unset(results.conclusion)

\* C6 witness: three variants with small expected cells end in the error.
C6_Witness ==
    /\ DiscreteDone
    /\ IsSet(results.contingency_table)
    /\ Cardinality(results.contingency_table[1].index) = 3
    /\ ~AssumptionsHold(results.contingency_table[1])
    /\ results.status = "error"
    /\ Unset(results.p_value)

\* a single outcome column with small expected cells ends in the error
C6_SingleOutcomeColumn ==
    /\ DiscreteDone
    /\ IsSet(results.contingency_table)
    /\ Shape(results.contingency_table[1]) = <<2, 1>>
    /\ results.status = "error"

\* C7: in both engines the conclusion is "statistically significant" exactly when
\* the p-value is strictly below 0.05 and "not statistically significant"
\* otherwise, a p-value of exactly 0.05 included.
C7_ConclusionFollowsPValue ==
    (outcome = "returned" /\ IsSet(results.p_value)) =>
        LET p == results.p_value[1]
        IN IF p.k = "num" /\ p.v < Alpha
           THEN results.conclusion = Some("statistically significant")
           ELSE results.conclusion = Some("not statistically significant")

\* C7 witness: a p-value of exactly 0.05 reported as not significant.
C7_Witness ==
    /\ outcome = "returned"
    /\ IsSet(results.p_value)
    /\ results.p_value = Some(F(Alpha))
    /\ results.conclusion = Some("not statistically significant")

\* C8: a result with status=error carries an error message and no statistic:
\* p_value, chi2_statistic, dof, odds_ratio (discrete), statistic, p_value
\* (continuous) and the conclusion are unset.
C8_ErrorHasMessageNoStatistic ==
    (outcome = "returned" /\ results.status = "error") =>
        /\ IsSet(results.error_message)
        /\ Unset(results.p_value)
        /\ Unset(results.conclusion)
        /\ call = "discrete" =>
              /\ Unset(results.chi2_statistic)
              /\ Unset(results.dof)
              /\ Unset(results.odds_ratio)
        /\ call = "continuous" => Unset(results.statistic)

\* C8 witness: the continuous engine rejecting three variants.
C8_Witness ==
    /\ ContinuousDone
    /\ results.status = "error"
    /\ Cardinality(CleanVariants(df)) = 3
    /\ IsSet(results.error_message)
    /\ Unset(results.p_value)

\* C9: a result with status=error has no field populated but the error message;
\* the discrete result has no contingency table, expected frequencies,
\* small-cell percentage, rates table, figure or test method.
C9_ErrorHasNoOtherField ==
    (outcome = "returned" /\ results.status = "error") =>
        /\ call = "discrete" =>
              /\ Unset(results.contingency_table)
              /\ Unset(results.expected_frequencies)
              /\ Unset(results.percentage_small_expected)
              /\ Unset(results.observed_rates_df)
              /\ Unset(results.plot_figure)
              /\ Unset(results.test_method)
        /\ call = "continuous" =>
              /\ Unset(results.group_stats)
              /\ Unset(results.plot_figure)
              /\ Unset(results.test_method)

\* the two groups the continuous engine forms from a table that passes validation
PassesContinuousValidation(d) == NUnique(DropNa(d)) >= 2 /\ Len(Unique(DropNa(d))) = 2

SmallestGroup(d) ==
    LET variants == Unique(DropNa(d))
        na == GroupN(Group(DropNa(d), variants[1]))
        nb == GroupN(Group(DropNa(d), variants[2]))
    IN IF na <= nb THEN na ELSE nb

\* C10: every call of either engine ends by returning a result record; when a
\* statistical routine fails on a validated input (Shapiro-Wilk on a group of
\* fewer than 3 observations, or on an empty group) the record has status=error.
C10_FailureReturnedAsError ==
    outcome # "none" =>
        /\ outcome = "returned"
        /\ (/\ call = "continuous"
            /\ PassesContinuousValidation(df)
            /\ SmallestGroup(df) < ShapiroMinN) => results.status = "error"

\* C11: a continuous result with status=success carries a statistic and a
\* p-value that are numbers, never NaN; degenerate groups are not reported as a
\* success with an undefined p-value.
C11_SuccessHasDefinedPValue ==
    (ContinuousDone /\ results.status = "success") =>
        /\ IsSet(results.statistic)
        /\ results.statistic[1].k # "nan"
        /\ IsSet(results.p_value)
        /\ results.p_value[1].k # "nan"

\* two constant groups with different constants: an infinite statistic, p = 0
C11_ConstantGroups ==
    /\ ContinuousDone
    /\ results.status = "success"
    /\ results.levene_p = Some(NaN)
    /\ results.statistic = Some(Inf)
    /\ results.p_value = Some(F(0))
    /\ results.conclusion = Some("statistically significant")

\* C12: neither engine changes the table it is given: when the call has
\* returned, with success or error, the caller's table is as it was, the metric
\* values that were not numeric included.
C12_TableUnchanged == [][df' = df]_vars

\* what a call hands back to its caller: how it ended and the result record
Handed(outs) == {[outcome |-> o.outcome, results |-> o.results] : o \in outs}

C14_IntervalBracketsRate ==
    (DiscreteDone /\ IsSet(results.observed_rates_df)) =>
        \A v \in DOMAIN results.observed_rates_df[1] :
            LET row == results.observed_rates_df[1][v]
            IN row.CI_Lower <= row.Conversion_Rate /\ row.Conversion_Rate <= row.CI_Upper

\* C14 witness: one variant at a rate of 0% with an interval of zero width, and
\* another with its rate strictly inside its interval.
C14_Witness ==
    /\ DiscreteDone
    /\ IsSet(results.observed_rates_df)
    /\ \E v \in DOMAIN results.observed_rates_df[1] :
          /\ results.observed_rates_df[1][v].Conversion_Rate = 0
          /\ results.observed_rates_df[1][v].CI_Upper = 0
    /\ \E v \in DOMAIN results.observed_rates_df[1] :
          /\ results.observed_rates_df[1][v].CI_Lower < results.observed_rates_df[1][v].Conversion_Rate
          /\ results.observed_rates_df[1][v].Conversion_Rate < results.observed_rates_df[1][v].CI_Upper

\* a variant at a rate of 100% with an interval of zero width
C14_FullRate ==
    /\ DiscreteDone
    /\ IsSet(results.observed_rates_df)
    /\ \E v \in DOMAIN results.observed_rates_df[1] :
          /\ results.observed_rates_df[1][v].Conversion_Rate = One.v
          /\ results.observed_rates_df[1][v].CI_Lower = One.v

\* C15: for control 80 trials / 10 successes and treatment 80 trials / 20
\* successes the discrete engine chooses Pearson's chi-squared and rejects the
\* null at 0.05: the reported statistic exceeds 3.841 and the conclusion is
\* "statistically significant".
C15_ExampleRejectsNull ==
    (DiscreteDone /\ df = ExampleTable(10, 20)) =>
        /\ results.test_method = Some(Pearson)
        /\ FloatGt(results.chi2_statistic[1], ChiSquaredCritical)
        /\ results.conclusion = Some("statistically significant")

\* the example's table is tested with Pearson's chi-squared on 1 degree of freedom
C15_ExampleIsPearson ==
    /\ DiscreteDone
    /\ df = ExampleTable(10, 20)
    /\ results.test_method = Some(Pearson)
    /\ results.dof = Some(1)
    /\ results.conclusion = Some("not statistically significant")

C16_PearsonResult ==
    /\ DiscreteDone
    /\ results.test_method = Some(Pearson)
    /\ IsSet(results.chi2_statistic)
    /\ results.dof = Some(1)
    /\ Unset(results.odds_ratio)

\* the distinct numeric values of the metric column of a table
MetricValues(d) == {d[i].metric.n : i \in {j \in DOMAIN d : d[j].metric.t = "num"}}

TooManyValuesMessage == Some("more than two unique values")

\* C17: the discrete engine returns status=error before it builds a contingency
\* table whenever the cleaned metric column has more than two distinct values;
\* values that failed coercion are no level, and a column with one or two
\* distinct values passes this check.
C17_MoreThanTwoLevelsRejected ==
    DiscreteDone =>
        /\ Cardinality(MetricValues(df)) > 2 =>
              /\ results.status = "error"
              /\ results.error_message = TooManyValuesMessage
              /\ Unset(results.contingency_table)
              /\ Unset(results.expected_frequencies)
        /\ Cardinality(MetricValues(df)) <= 2 =>
              results.error_message # TooManyValuesMessage

\* C17 witness: three distinct metric values rejected with no contingency table.
C17_Witness ==
    /\ DiscreteDone
    /\ Cardinality(MetricValues(df)) = 3
    /\ results.status = "error"
    /\ results.error_message = TooManyValuesMessage
    /\ Unset(results.contingency_table)

\* two distinct values pass the check and are tested
C17_TwoLevelsPass ==
    /\ DiscreteDone
    /\ Cardinality(MetricValues(df)) = 2
    /\ results.status = "success"
    /\ IsSet(results.contingency_table)

\* a value that failed coercion is no level: the table passes the check
C17_CoercedValueIsNoLevel ==
    /\ DiscreteDone
    /\ \E i \in DOMAIN df : df[i].metric = Missing
    /\ Cardinality(MetricValues(df)) = 2
    /\ IsSet(results.contingency_table)

TooFewValuesMessage == Some("not enough unique values")

\* C18: the continuous engine returns status=error before it forms a group
\* whenever the cleaned metric column has fewer than two distinct values (none
\* or one); the check comes before the variant count, so a table that fails
\* both is reported with the metric message.
C18_FewerThanTwoValuesRejected ==
    (ContinuousDone /\ Cardinality(MetricValues(df)) < 2) =>
        /\ results.status = "error"
        /\ results.error_message = TooFewValuesMessage
        /\ Unset(results.group_stats)
        /\ Unset(results.shapiro_a_p)
        /\ Unset(results.test_method)

\* C18 witness: a single metric value on three variants, reported with the
\* metric message.
C18_Witness ==
    /\ ContinuousDone
    /\ Cardinality(MetricValues(df)) = 1
    /\ Cardinality(CleanVariants(df)) = 3
    /\ results.status = "error"
    /\ results.error_message = TooFewValuesMessage

\* no numeric value at all, reported with the metric message
C18_NoValue ==
    /\ ContinuousDone
    /\ df # <<>>
    /\ MetricValues(df) = {}
    /\ results.error_message = TooFewValuesMessage

\* the rows of variant v with metric value m in a contingency table
CountOf(ct, v, m) == IF m \in ct.columns THEN ct.cell[<<v, m>>] ELSE 0

\* the per-variant rates when m is the outcome counted as success
SuccessRates(ct, m) == [v \in ct.index |-> (One.v * CountOf(ct, v, m)) \div RowTotal(ct, v)]

\* C19 (as stated): the outcome counted as success for the per-variant rates is
\* 1 when 1 occurs in the cleaned metric column, and otherwise the only value
\* present in that column, whatever it is.
C19_SuccessIsOneOrOnlyValue ==
    (DiscreteDone /\ IsSet(results.contingency_table)) =>
        LET ct == results.contingency_table[1]
        IN /\ 1 \in MetricValues(df) =>
                 results.raw_conversion_rates = Some(SuccessRates(ct, 1))
           /\ (1 \notin MetricValues(df) /\ Cardinality(MetricValues(df)) = 1) =>
                 \A m \in MetricValues(df) :
                     results.raw_conversion_rates = Some(SuccessRates(ct, m))

\* C19 (amended): the outcome counted as success is 1 when 1 is a column of the
\* contingency table, otherwise 0 when 0 is a column; when neither is a column
\* no rates are computed and a message is set.
C19_SuccessIsOneElseZero ==
    (DiscreteDone /\ IsSet(results.contingency_table)) =>
        LET ct == results.contingency_table[1]
        IN IF 1 \in ct.columns
           THEN results.raw_conversion_rates = Some(SuccessRates(ct, 1))
           ELSE IF 0 \in ct.columns
           THEN results.raw_conversion_rates = Some(SuccessRates(ct, 0))
           ELSE /\ Unset(results.raw_conversion_rates)
                /\ Unset(results.observed_rates_df)
                /\ Unset(results.plot_figure)
                /\ IsSet(results.error_message)

\* C19 witness: the values 0 and 2, no 1: 0 is counted as success although it is
\* not the only value present, and the two variants differ in their rates.
C19_Witness ==
    /\ DiscreteDone
    /\ IsSet(results.contingency_table)
    /\ results.contingency_table[1].columns = {0, 2}
    /\ results.raw_conversion_rates = Some(SuccessRates(results.contingency_table[1], 0))
    /\ \E v, w \in results.contingency_table[1].index :
          results.raw_conversion_rates[1][v] # results.raw_conversion_rates[1][w]

\* the only value present is 2: no outcome is counted as success, no rates
C19_OnlyValueNotSuccess ==
    /\ DiscreteDone
    /\ IsSet(results.contingency_table)
    /\ MetricValues(df) = {2}
    /\ Unset(results.raw_conversion_rates)
    /\ Unset(results.observed_rates_df)

\* C20: when the discrete engine cannot infer a success outcome (the metric has
\* neither 0 nor 1 among its values) the result has status=error; in every
\* discrete result error_message is set only when status=error.
C20_MessageOnlyWithError ==
    DiscreteDone =>
        /\ IsSet(results.error_message) => results.status = "error"
        /\ (/\ IsSet(results.contingency_table)
            /\ 0 \notin results.contingency_table[1].columns
            /\ 1 \notin results.contingency_table[1].columns) => results.status = "error"

\* no success outcome inferred, the message set, and a successful Pearson result
C20_MessageWithSuccess ==
    /\ DiscreteDone
    /\ results.status = "success"
    /\ results.error_message = Some("Could not determine success column")
    /\ results.test_method = Some(Pearson)
    /\ IsSet(results.p_value)
    /\ Unset(results.observed_rates_df)

NoTableMessage == Some("Could not create a contingency table")

VariantCountMessage == Some("Expected exactly two variants")

\* no row has both a numeric metric and a variant value
NoRowSurvives(d) == CleanVariants(d) = {}

\* C21 (as stated): when no row survives cleaning both engines return
\* status=error without running a statistical routine, the discrete engine
\* through the empty-contingency-table check and the continuous engine through
\* the metric-variation check.
C21_NoRowsRejectedByNamedCheck ==
    (outcome # "none" /\ NoRowSurvives(df)) =>
        /\ outcome = "returned"
        /\ results.status = "error"
        /\ call = "discrete" => results.error_message = NoTableMessage
        /\ call = "continuous" => results.error_message = TooFewValuesMessage

\* C21 (amended): when no row survives cleaning both engines return
\* status=error without running a statistical routine; the discrete engine
\* through the empty-contingency-table check (or the level check when the
\* metric has more than two values), the continuous engine through the
\* metric-variation check when the metric has fewer than two values and
\* through the variant-count check otherwise.
C21_NoRowsRejected ==
    (outcome # "none" /\ NoRowSurvives(df)) =>
        /\ outcome = "returned"
        /\ results.status = "error"
        /\ Unset(results.p_value)
        /\ Unset(results.test_method)
        /\ call = "discrete" =>
              /\ results.error_message =
                    IF Cardinality(MetricValues(df)) > 2 THEN TooManyValuesMessage
                    ELSE NoTableMessage
              /\ Unset(results.contingency_table)
              /\ Unset(results.expected_frequencies)
        /\ call = "continuous" =>
              /\ results.error_message =
                    IF Cardinality(MetricValues(df)) < 2 THEN TooFewValuesMessage
                    ELSE VariantCountMessage
              /\ Unset(results.group_stats)
              /\ Unset(results.shapiro_a_p)
              /\ Unset(results.levene_p)

\* C21 witness: every variant value missing, two metric values: the continuous
\* engine rejects the table at the variant-count check.
C21_Witness ==
    /\ ContinuousDone
    /\ df # <<>>
    /\ NoRowSurvives(df)
    /\ Cardinality(MetricValues(df)) = 2
    /\ results.status = "error"
    /\ results.error_message = VariantCountMessage

\* every metric value failed coercion: the discrete engine rejects the table at
\* the empty-table check
C21_NoMetricDiscrete ==
    /\ DiscreteDone
    /\ df # <<>>
    /\ MetricValues(df) = {}
    /\ results.error_message = NoTableMessage

\* the blocks of a table whose rows have a numeric metric and a variant value
Surviving(d) == {i \in DOMAIN d : d[i].metric.t = "num" /\ d[i].variant # NoVariant}

RECURSIVE RowsIn(_, _)
\* the number of rows of the blocks S of a table
RowsIn(d, S) == IF S = {} THEN 0 ELSE LET i == CHOOSE j \in S : TRUE IN d[i].n + RowsIn(d, S \ {i})

\* C22: the contingency table of the discrete engine counts exactly the cleaned
\* rows: every cell is a non-negative integer, each row total is the number of
\* cleaned rows of that variant, the grand total is the number of rows with a
\* numeric metric and a variant value; rows whose metric failed coercion are in
\* no cell.
C22_TableCountsCleanedRows ==
    (DiscreteDone /\ IsSet(results.contingency_table)) =>
        LET ct == results.contingency_table[1]
        IN /\ ct.index = {df[i].variant : i \in Surviving(df)}
           /\ ct.columns = {df[i].metric.n : i \in Surviving(df)}
           /\ \A c \in DOMAIN ct.cell :
                 /\ ct.cell[c] \in Nat
                 /\ ct.cell[c] = RowsIn(df, {i \in Surviving(df) :
                                               df[i].variant = c[1] /\ df[i].metric.n = c[2]})
           /\ \A v \in ct.index :
                 RowTotal(ct, v) = RowsIn(df, {i \in Surviving(df) : df[i].variant = v})
           /\ GrandTotal(ct) = RowsIn(df, Surviving(df))

\* C22 witness: a table with rows whose metric failed coercion and with a cell
\* of zero; the grand total is below the number of rows of the table.
C22_Witness ==
    /\ DiscreteDone
    /\ IsSet(results.contingency_table)
    /\ \E i \in DOMAIN df : df[i].metric = Missing
    /\ \E c \in DOMAIN results.contingency_table[1].cell : results.contingency_table[1].cell[c] = 0
    /\ GrandTotal(results.contingency_table[1]) = RowsIn(df, Surviving(df))
    /\ GrandTotal(results.contingency_table[1]) < RowsIn(df, DOMAIN df)

\* C23: for every contingency table the discrete engine builds, each expected
\* cell is row_total x column_total / grand_total, the expected table has the
\* shape and the row and column totals of the observed table, and
\* percentage_small_expected is 100 x (expected cells below 5) / (cells).
C23_ExpectedUnderIndependence ==
    (DiscreteDone /\ IsSet(results.expected_frequencies)) =>
        LET ct == results.contingency_table[1]
            expected == results.expected_frequencies[1]
            pct == results.percentage_small_expected[1]
        IN /\ DOMAIN expected = ct.index \X ct.columns
           /\ \A c \in DOMAIN expected :
                 /\ expected[c].den > 0
                 /\ expected[c].num * GrandTotal(ct) =
                       RowTotal(ct, c[1]) * ColTotal(ct, c[2]) * expected[c].den
           /\ \A v \in ct.index :
                 SumOver([m \in ct.columns |-> expected[<<v, m>>].num * GrandTotal(ct)], ct.columns)
                    = RowTotal(ct, v) * GrandTotal(ct)
                        * (CHOOSE d \in {expected[c].den : c \in DOMAIN expected} : TRUE)
           /\ \A m \in ct.columns :
                 SumOver([v \in ct.index |-> expected[<<v, m>>].num * GrandTotal(ct)], ct.index)
                    = ColTotal(ct, m) * GrandTotal(ct)
                        * (CHOOSE d \in {expected[c].den : c \in DOMAIN expected} : TRUE)
           /\ Cardinality({expected[c].den : c \in DOMAIN expected}) = 1
           /\ pct.num * Cardinality(ct.index \X ct.columns) =
                 100 * Cardinality(SmallCells(ct)) * pct.den

\* C23 witness: a 2x2 table with unequal margins, some expected cells below 5
\* and some not.
C23_Witness ==
    /\ DiscreteDone
    /\ IsSet(results.expected_frequencies)
    /\ Shape(results.contingency_table[1]) = <<2, 2>>
    /\ SmallCells(results.contingency_table[1]) # {}
    /\ SmallCells(results.contingency_table[1]) # DOMAIN results.expected_frequencies[1]
    /\ results.percentage_small_expected[1].num > 0

\* p > 0.05 for a float p, False for NaN
Above005(p) == p.k = "num" /\ p.v > Alpha

\* C24: every status=success result of the continuous engine is complete: both
\* Shapiro-Wilk p-values and the Levene p-value are set, for large samples too;
\* is_normal_a, is_normal_b and variances_similar are (p > 0.05) of their
\* p-value; test_method is Mann-Whitney, Student or Welch; statistic, p_value
\* and conclusion are set; no result carries the "Could not perform
\* statistical test" error.
C24_SuccessIsComplete ==
    ContinuousDone =>
        /\ results.error_message # Some("Could not perform statistical test")
        /\ results.status = "success" =>
              /\ IsSet(results.shapiro_a_p)
              /\ IsSet(results.shapiro_b_p)
              /\ IsSet(results.levene_p)
              /\ results.is_normal_a = Some(Above005(results.shapiro_a_p[1]))
              /\ results.is_normal_b = Some(Above005(results.shapiro_b_p[1]))
              /\ results.variances_similar = Some(Above005(results.levene_p[1]))
              /\ results.test_method \in {Some(MannWhitney), Some(Student), Some(Welch)}
              /\ IsSet(results.statistic)
              /\ IsSet(results.p_value)
              /\ IsSet(results.conclusion)
              /\ IsSet(results.group_stats)

\* C24 witness: a large sample (30 and 30) with both Shapiro-Wilk p-values and
\* the Levene p-value set and a t-test concluded on.
C24_Witness ==
    /\ ContinuousDone
    /\ results.status = "success"
    /\ results.is_large_sample
    /\ IsSet(results.shapiro_a_p)
    /\ IsSet(results.shapiro_b_p)
    /\ results.levene_p = Some(F(Alpha + 1))
    /\ results.test_method = Some(Student)
    /\ IsSet(results.conclusion)

\* the blocks of a table whose rows are left by cleaning: a numeric metric
Cleaned(d) == {i \in DOMAIN d : d[i].metric.t = "num"}

\* the variant value of the first cleaned row
FirstVariant(d) == d[CHOOSE i \in Cleaned(d) : \A j \in Cleaned(d) : i <= j].variant

\* C25: in the continuous engine group A is the variant value that appears first
\* among the cleaned rows and group B the other one; group_stats and the
\* significant-case interpretation ("B ... compared to A") follow this
\* assignment, and every cleaned row is in exactly one of the two groups:
\* N_A + N_B is the number of cleaned rows.
C25_GroupsPartitionCleanedRows ==
    (ContinuousDone /\ IsSet(results.group_stats)) =>
        LET a == results.group_stats[1][1]
            b == results.group_stats[1][2]
        IN /\ a.variant = FirstVariant(df)
           /\ b.variant # a.variant
           /\ b.variant \in {df[i].variant : i \in Cleaned(df)}
           /\ results.conclusion = Some("statistically significant") =>
                 /\ results.interpretation[1][1] = b.variant
                 /\ results.interpretation[1][3] = a.variant
           /\ a.N + b.N = RowsIn(df, Cleaned(df))

\* two real variants: A the first among the cleaned rows although not the first
\* of the table, and the two groups hold every cleaned row
C25_FirstCleanedRowIsGroupA ==
    /\ ContinuousDone
    /\ IsSet(results.group_stats)
    /\ df[1].metric = Missing
    /\ df[1].variant # FirstVariant(df)
    /\ results.group_stats[1][1].variant = FirstVariant(df)
    /\ results.group_stats[1][1].N + results.group_stats[1][2].N = RowsIn(df, Cleaned(df))

\* C26: the variant-count check of the continuous engine counts the distinct
\* non-null variant values of the cleaned rows: a table with one real variant
\* plus rows with a missing variant is rejected with status=error, and when the
\* check passes neither group is empty.
C26_MissingVariantNotCounted ==
    (call = "continuous" /\ outcome # "none" /\ Cardinality(MetricValues(df)) >= 2) =>
        /\ Cardinality(CleanVariants(df)) # 2 =>
              /\ outcome = "returned"
              /\ results.status = "error"
              /\ results.error_message = VariantCountMessage
        /\ (outcome = "returned" /\ IsSet(results.group_stats)) =>
              /\ results.group_stats[1][1].N > 0
              /\ results.group_stats[1][2].N > 0

\* one real variant of 30 rows and 30 rows with a missing variant pass the check
C26_MissingVariantCounted ==
    /\ call = "continuous"
    /\ outcome # "none"
    /\ CleanVariants(df) = {"A"}
    /\ RowsIn(df, Cleaned(df)) = 2 * LargeSampleN
    /\ \/ outcome = "raised"
       \/ results.status = "success"

C28_ShapiroLabelsMatchGroups ==
    (ContinuousDone /\ IsSet(app.shown)) =>
        /\ app.shown[1][1] = results.group_stats[1][1].variant
        /\ app.shown[1][2] = results.group_stats[1][2].variant

\* the labels match when the rows dropped by cleaning are the last of the table
C28_LabelsMatchOnTrailingRows ==
    /\ ContinuousDone
    /\ IsSet(app.shown)
    /\ app.df[1][3].metric = Str("x")
    /\ app.shown[1][1] = results.group_stats[1][1].variant
    /\ app.shown[1][2] = results.group_stats[1][2].variant

\* C29: the in-app variants of the two test functions (app.py, unnamed/part_000)
\* and the canonical modules make the same decisions on every table: a call of
\* a canonical engine from the application ends, stops at a validation check,
\* announces a test method and, from the p-value, reaches a conclusion as the
\* in-app variant can on the uploaded table, and the in-app variant ends in no
\* other way.
C29_LegacyMakesSameDecisions ==
    /\ call = "discrete" =>
         /\ DecisionOf([outcome |-> outcome, results |-> results])
               \in app_perform_discrete_ab_test(app.uploaded[1])
         /\ app_perform_discrete_ab_test(app.uploaded[1])
               = {DecisionOf(o) : o \in perform_discrete_ab_test(app.uploaded[1])}
    /\ call = "continuous" =>
         /\ DecisionOf([outcome |-> outcome, results |-> results])
               \in app_perform_continuous_ab_test(app.uploaded[1])
         /\ app_perform_continuous_ab_test(app.uploaded[1])
               = {DecisionOf(o) : o \in perform_continuous_ab_test(app.uploaded[1])}

\* a canonical Welch test with a significant result on a table that has rows
\* with a non-numeric metric, matched by the in-app variant
C29_Witness ==
    /\ ContinuousDone
    /\ results.status = "success"
    /\ results.test_method = Some(Welch)
    /\ results.conclusion = Some("statistically significant")
    /\ \E i \in DOMAIN app.uploaded[1] : app.uploaded[1][i].metric = Str("x")
    /\ Decided(None, Some(Welch), results.p_value, Some("statistically significant"))
          \in app_perform_continuous_ab_test(app.uploaded[1])

\* the discrete engines both stop at Fisher's test on a table that is not 2x2
C29_BothStopAtFisher ==
    /\ DiscreteDone
    /\ results.status = "error"
    /\ results.test_method = Some(Fisher)
    /\ app_perform_discrete_ab_test(app.uploaded[1])
          = {Decided(results.error_message, Some(Fisher), None, None)}

====
